---- MODULE Spec2Model ----
(***************************************************************************)
(* Model of eztimer::time() (include/eztimer/eztimer.hpp).                 *)
(*                                                                         *)
(* Durations are whole clock ticks.  The duration<double> fields that the  *)
(* code divides (mean, sd) are exact rationals [num, den]; den = 0 stands  *)
(* for the non-finite result of a division by zero.                        *)
(*                                                                         *)
(* `log` and `now` are history variables: `now` is the steady clock and    *)
(* `log` records, in program order, every invocation of a candidate, every *)
(* invocation of `check` and every skipped schedule entry.                 *)
(***************************************************************************)
EXTENDS Integers, Sequences, FiniteSets, TLC

\* ---- bounds of the model ----
MaxFuns == 2
MaxIterations == 3
MaxBurnIn == 1
MaxDuration == 2
MaxBudget == 3
MaxCheckTime == 1
MaxCalls == 4

VARIABLES
    nfun,                   \* funs.size()
    iterations,             \* opt.iterations
    burn_in,                \* opt.burn_in
    max_time_per_function,  \* opt.max_time_per_function: {} or {T}
    max_time_total,         \* opt.max_time_total: {} or {T}
    order,                  \* the execution sequence
    output,                 \* std::vector<Timings>, indexed 0 .. nfun-1
    total_time,
    check_time,             \* how long one run of the check callback takes
    i, f, oIt,              \* loop counters and the iterator into order
    pc,                     \* "schedule", "dispatch", "done", "thrown"
    now,                    \* steady clock
    log                     \* history of calls, checks and skips

vars == <<nfun, iterations, burn_in, max_time_per_function, max_time_total,
          order, output, total_time, i, f, oIt, pc, now, log, check_time>>

opts == <<nfun, iterations, burn_in, max_time_per_function, max_time_total, check_time>>

\* ---- std::optional<duration> ----
Budgets == {{}} \cup {{t} : t \in 0..MaxBudget}
has_value(o) == o # {}
value(o) == CHOOSE t \in o : TRUE

\* ---- exact arithmetic on duration<double> ----
RECURSIVE GCD(_, _)
GCD(a, b) == IF b = 0 THEN a ELSE GCD(b, a % b)

Abs(x) == IF x < 0 THEN -x ELSE x

Norm(q) ==
    IF q.den = 0 THEN q
    ELSE LET g == GCD(Abs(q.num), Abs(q.den))
             s == IF q.den < 0 THEN -1 ELSE 1
         IN [num |-> s * (q.num \div g), den |-> s * (q.den \div g)]

Rat(n) == [num |-> n, den |-> 1]
Zero == Rat(0)
RatAdd(a, b) == Norm([num |-> a.num * b.den + b.num * a.den, den |-> a.den * b.den])
RatSub(a, b) == Norm([num |-> a.num * b.den - b.num * a.den, den |-> a.den * b.den])
RatMul(a, b) == Norm([num |-> a.num * b.num, den |-> a.den * b.den])
RatDivInt(a, n) == Norm([num |-> a.num, den |-> a.den * n])
RatGeq(a, t) == a.num >= t * a.den
RatGt(a, t) == a.num > t * a.den
RatEq(a, b) == a.num * b.den = b.num * a.den /\ (a.den = 0 <=> b.den = 0)

RECURSIVE Sum(_)
Sum(s) == IF s = <<>> THEN 0 ELSE Head(s) + Sum(Tail(s))

\* ---- Timings ----
NewTimings == [times |-> <<>>, mean |-> Zero, sd |-> Zero]

num_iterations == iterations + burn_in

Funs == 0 .. (nfun - 1)

\* ---- schedule builder ----
Indices == [k \in 1..nfun |-> k - 1]

Bijections(n) == {p \in [1..n -> 1..n] : \A a, b \in 1..n : p[a] = p[b] => a = b}

\* the whole sequence is shuffled instead of its last n entries
Shuffle_Whole(seq, n) ==
    {[j \in 1..Len(seq) |-> seq[p[j]]] : p \in Bijections(Len(seq))}

\* std::shuffle(first, last, rng) on the last n entries of seq: the generator
\* is not modelled, any permutation of the range may come out.
Shuffle(seq, n) ==
    LET keep == Len(seq) - n
    IN {[j \in 1..Len(seq) |-> IF j <= keep THEN seq[j] ELSE seq[keep + p[j - keep]]] :
            p \in Bijections(n)}

\* ---- dispatch loop ----
Durations == 0..MaxDuration
CheckTimes == 1..MaxCheckTime

current == order[oIt + 1]

\* the record is picked by the loop counter instead of the schedule entry
Slot_LoopIndex(cur, loopf) == loopf

Slot(cur, loopf) == cur

\* the burn-in guard is missing
Timed_Always(r) == TRUE

Timed(r) == r >= burn_in

\* > in place of >=
SkipPerFunction_Strict(curout) ==
    has_value(max_time_per_function) /\ RatGt(curout.mean, value(max_time_per_function))

SkipPerFunction(curout) ==
    has_value(max_time_per_function) /\ RatGeq(curout.mean, value(max_time_per_function))

\* > in place of >=
SkipTotal_Strict ==
    has_value(max_time_total) /\ total_time > value(max_time_total)

SkipTotal ==
    has_value(max_time_total) /\ total_time >= value(max_time_total)

\* the end timestamp is taken after check has run
EndTimestamp_AfterCheck(afterCall, afterCheck) == afterCheck

EndTimestamp(afterCall, afterCheck) == afterCall

\* the sample is inserted at the front
PushBack_Front(times, x) == <<x>> \o times

PushBack(times, x) == Append(times, x)

\* = in place of +=
AddTime_Overwrite(acc, curtime) == Rat(curtime)

AddTime(acc, curtime) == RatAdd(acc, Rat(curtime))

Event(ev, fn, round, start, end, res) ==
    [ev |-> ev, fn |-> fn, round |-> round, start |-> start, end |-> end, res |-> res]

\* ---- reducer ----
\* nothing is erased
EraseBurnIn_Nothing(times) == times

EraseBurnIn(times) == SubSeq(times, burn_in + 1, Len(times))

RECURSIVE SumSqDev(_, _, _)
SumSqDev(times, mean, acc) ==
    IF times = <<>> THEN acc
    ELSE LET delta == RatSub(Rat(Head(times)), mean)
         IN SumSqDev(Tail(times), mean, RatAdd(acc, RatMul(delta, delta)))

SdValue(x) == x

Reduced(curout) ==
    LET t == EraseBurnIn(curout.times)
    IN IF t = <<>> THEN [curout EXCEPT !.times = t]
       ELSE LET m == RatDivInt(curout.mean, Len(t))
                ss == SumSqDev(t, m, curout.sd)
            IN [times |-> t, mean |-> m, sd |-> SdValue(RatDivInt(ss, Len(t) - 1))]

\* ---- state machine ----
Init ==
    /\ nfun \in 0..MaxFuns
    /\ iterations \in 0..MaxIterations
    /\ burn_in \in 0..MaxBurnIn
    /\ max_time_per_function \in Budgets
    /\ max_time_total \in Budgets
    /\ nfun * num_iterations <= MaxCalls
    /\ check_time \in CheckTimes
    /\ order = <<>>
    /\ output = <<>>
    /\ total_time = 0
    /\ i = 0 /\ f = 0 /\ oIt = 0
    /\ pc = "schedule"
    /\ now = 0
    /\ log = <<>>

\* one pass of the loop of lines 118-123
ScheduleRound ==
    /\ pc = "schedule"
    /\ i < num_iterations
    /\ order' \in Shuffle(order \o Indices, nfun)
    /\ i' = i + 1
    /\ UNCHANGED <<opts, output, total_time, f, oIt, pc, now, log>>

\* lines 125-129: the schedule is complete, the dispatch loop is entered
StartDispatch ==
    /\ pc = "schedule"
    /\ i = num_iterations
    /\ output' = [k \in Funs |-> NewTimings]
    /\ total_time' = 0
    /\ oIt' = 0
    /\ i' = 0 /\ f' = 0
    /\ pc' = "dispatch"
    /\ UNCHANGED <<opts, order, now, log>>

InLoop == pc = "dispatch" /\ i < num_iterations /\ f < nfun

\* lines 134-137: continue, which still runs ++f, ++oIt
SkipFunction ==
    /\ InLoop
    /\ Timed(i)
    /\ SkipPerFunction(output[Slot(current, f)])
    /\ f' = f + 1 /\ oIt' = oIt + 1
    /\ log' = Append(log, Event("skip_function", current, i, now, now, 0))
    /\ UNCHANGED <<opts, order, output, total_time, i, pc, now>>

\* lines 138-140
SkipAll ==
    /\ InLoop
    /\ Timed(i)
    /\ ~SkipPerFunction(output[Slot(current, f)])
    /\ SkipTotal
    /\ f' = f + 1 /\ oIt' = oIt + 1
    /\ log' = Append(log, Event("skip_total", current, i, now, now, 0))
    /\ UNCHANGED <<opts, order, output, total_time, i, pc, now>>

\* lines 143-147 in a burn-in round
BurnInCall ==
    /\ InLoop
    /\ ~Timed(i)
    /\ \E d \in Durations :
        LET start == now
            end == EndTimestamp(start + d, start + d)
            curtime == end - start
            slot == Slot(current, f)
        IN /\ output' = [output EXCEPT ![slot].times = PushBack(@, curtime)]
           /\ now' = start + d
           /\ log' = Append(log, Event("call", current, i, start, start + d, Len(log) + 1))
    /\ f' = f + 1 /\ oIt' = oIt + 1
    /\ UNCHANGED <<opts, order, total_time, i, pc>>

\* lines 143-155 in a timed round; check returns normally
TimedCall ==
    /\ InLoop
    /\ Timed(i)
    /\ ~SkipPerFunction(output[Slot(current, f)])
    /\ ~SkipTotal
    /\ \E d \in Durations :
        LET start == now
            end == EndTimestamp(start + d, start + d + check_time)
            curtime == end - start
            slot == Slot(current, f)
            res == Len(log) + 1
        IN /\ output' = [output EXCEPT ![slot].times = PushBack(@, curtime),
                                       ![slot].mean = AddTime(@, curtime)]
           /\ total_time' = IF has_value(max_time_total) THEN total_time + curtime
                            ELSE total_time
           /\ now' = start + d + check_time
           /\ log' = log \o <<Event("call", current, i, start, start + d, res),
                              Event("check", current, i, start + d, start + d + check_time, res)>>
    /\ f' = f + 1 /\ oIt' = oIt + 1
    /\ UNCHANGED <<opts, order, i, pc>>

\* lines 143-150 in a timed round; check throws and the exception leaves time()
CheckThrows ==
    /\ InLoop
    /\ Timed(i)
    /\ ~SkipPerFunction(output[Slot(current, f)])
    /\ ~SkipTotal
    /\ \E d \in Durations :
        LET start == now
            end == EndTimestamp(start + d, start + d + check_time)
            curtime == end - start
            slot == Slot(current, f)
            res == Len(log) + 1
        IN /\ output' = [output EXCEPT ![slot].times = PushBack(@, curtime)]
           /\ now' = start + d + check_time
           /\ log' = log \o <<Event("call", current, i, start, start + d, res),
                              Event("check", current, i, start + d, start + d + check_time, res)>>
    /\ pc' = "thrown"
    /\ UNCHANGED <<opts, order, total_time, i, f, oIt>>

\* the inner loop of line 130 ends, line 129 moves to the next round
NextRound ==
    /\ pc = "dispatch"
    /\ i < num_iterations
    /\ f = nfun
    /\ i' = i + 1 /\ f' = 0
    /\ UNCHANGED <<opts, order, output, total_time, oIt, pc, now, log>>

\* lines 159-178: the outer loop has ended
Reduce ==
    /\ pc = "dispatch"
    /\ i = num_iterations
    /\ output' = [k \in DOMAIN output |-> Reduced(output[k])]
    /\ pc' = "done"
    /\ UNCHANGED <<opts, order, total_time, i, f, oIt, now, log>>

Next ==
    \/ ScheduleRound
    \/ StartDispatch
    \/ SkipFunction
    \/ SkipAll
    \/ BurnInCall
    \/ TimedCall
    \/ CheckThrows
    \/ NextRound
    \/ Reduce

Spec == Init /\ [][Next]_vars

\* ---- reading the history ----
Dur(e) == e.end - e.start
DursOf(events) == [j \in 1..Len(events) |-> Dur(events[j])]

IsCall(e) == e.ev = "call"
IsCheck(e) == e.ev = "check"
IsSkip(e) == e.ev \in {"skip_function", "skip_total"}
IsTimedCall(e) == IsCall(e) /\ e.round >= burn_in
IsBurnInCall(e) == IsCall(e) /\ e.round < burn_in

Calls(k) == SelectSeq(log, LAMBDA e : IsCall(e) /\ e.fn = k)
TimedCalls(k) == SelectSeq(log, LAMBDA e : IsTimedCall(e) /\ e.fn = k)
BurnInCalls(k) == SelectSeq(log, LAMBDA e : IsBurnInCall(e) /\ e.fn = k)
AllTimedCalls == SelectSeq(log, IsTimedCall)
Checks(k) == SelectSeq(log, LAMBDA e : IsCheck(e) /\ e.fn = k)
Entries == SelectSeq(log, LAMBDA e : IsCall(e) \/ IsSkip(e))

\* time spent in timed calls of candidate k before position p of the history
TimedBefore(p, k) ==
    Sum(DursOf(SelectSeq(SubSeq(log, 1, p - 1), LAMBDA e : IsTimedCall(e) /\ e.fn = k)))

\* time spent in timed calls of all candidates before position p
AllTimedBefore(p) == Sum(DursOf(SelectSeq(SubSeq(log, 1, p - 1), IsTimedCall)))

Front(s) == SubSeq(s, 1, Len(s) - 1)

Returned == pc = "done"
NoBudgets == ~has_value(max_time_per_function) /\ ~has_value(max_time_total)

AllSamples == Sum([k \in 1..nfun |-> Sum(output[k - 1].times)])

\* C1: with no budget set, every candidate's returned times has exactly
\* `iterations` entries and they are the durations of its calls in the timed
\* rounds, none from a burn-in round (so iterations = 0 returns empty times).
C1_ExactlyIterations ==
    (Returned /\ NoBudgets) =>
        \A k \in Funs :
            /\ Len(output[k].times) = iterations
            /\ output[k].times = DursOf(TimedCalls(k))
            /\ (iterations = 0 => output[k].times = <<>>)

C1_Witness ==
    /\ Returned /\ NoBudgets
    /\ nfun = 1 /\ iterations = 3 /\ burn_in = 1
    /\ Dur(BurnInCalls(0)[1]) = 2
    /\ output[0].times = <<0, 1, 2>>

\* C2: with max_time_per_function = T, a timed call of candidate f is made
\* only while the time of f's earlier timed calls is < T, an entry of f is
\* skipped for this budget only when that time is >= T, and in the returned
\* output the samples of a candidate without its last one sum to less than T.
C2_PerFunctionCap ==
    has_value(max_time_per_function) =>
        LET T == value(max_time_per_function)
        IN /\ \A p \in 1..Len(log) :
                /\ IsTimedCall(log[p]) => TimedBefore(p, log[p].fn) < T
                /\ log[p].ev = "skip_function" => TimedBefore(p, log[p].fn) >= T
                /\ (IsSkip(log[p]) /\ TimedBefore(p, log[p].fn) >= T)
                        => log[p].ev = "skip_function"
           /\ Returned =>
                \A k \in Funs :
                    output[k].times # <<>> => Sum(Front(output[k].times)) < T

C2_Witness ==
    /\ Returned
    /\ max_time_per_function = {2} /\ max_time_total = {}
    /\ iterations = 2 /\ nfun = 2
    /\ output[0].times = <<2>>
    /\ output[1].times = <<1, 2>>
    /\ \E p \in 1..Len(log) : log[p].ev = "skip_function" /\ log[p].fn = 0

\* C3: with max_time_total = T, a timed call is made only while the time of
\* all earlier timed calls is < T, every entry of a timed round is skipped once
\* that time is >= T, and all returned samples without the last one recorded
\* sum to less than T.
C3_TotalCap ==
    has_value(max_time_total) =>
        LET T == value(max_time_total)
        IN /\ \A p \in 1..Len(log) :
                /\ IsTimedCall(log[p]) => AllTimedBefore(p) < T
                /\ log[p].ev = "skip_total" => AllTimedBefore(p) >= T
                /\ (IsSkip(log[p]) /\ AllTimedBefore(p) < T) => log[p].ev = "skip_function"
           /\ (Returned /\ AllTimedCalls # <<>>) =>
                AllSamples - Dur(AllTimedCalls[Len(AllTimedCalls)]) < T

C3_Witness ==
    /\ Returned
    /\ max_time_total = {3} /\ max_time_per_function = {}
    /\ nfun = 2 /\ iterations = 2
    /\ AllSamples = 4
    /\ \E p \in 1..Len(log) : log[p].ev = "skip_total"

SumSq(t) == Sum([j \in 1..Len(t) |-> t[j] * t[j]])

\* the sample variance of t with Bessel's correction is VarNum(t) / VarDen(t)
VarNum(t) == Len(t) * SumSq(t) - Sum(t) * Sum(t)
VarDen(t) == Len(t) * (Len(t) - 1)

\* C4: for every candidate with at least two returned samples, sd squared is
\* the sum of squared deviations of the samples from their mean divided by
\* (count - 1).
C4_SdIsStandardDeviation ==
    Returned =>
        \A k \in Funs :
            LET t == output[k].times
                sd == output[k].sd
            IN Len(t) >= 2 =>
                /\ sd.den # 0
                /\ sd.num * sd.num * VarDen(t) = VarNum(t) * sd.den * sd.den

\* C5: for any budgets the returned mean is the arithmetic mean of the
\* returned times (mean * count = sum of times), and mean and sd are both
\* zero when the returned times is empty.
C5_MeanOfReturnedTimes ==
    Returned =>
        \A k \in Funs :
            LET t == output[k].times
                m == output[k].mean
            IN IF t = <<>>
               THEN RatEq(m, Zero) /\ RatEq(output[k].sd, Zero)
               ELSE m.den # 0 /\ m.num * Len(t) = Sum(t) * m.den

C5_Witness ==
    /\ Returned
    /\ burn_in = 1 /\ nfun = 1 /\ iterations = 3
    /\ max_time_per_function = {3}
    /\ Dur(BurnInCalls(0)[1]) = 1
    /\ output[0].times = <<1, 2>>

\* C6: whatever the budgets, every candidate is invoked exactly burn_in times
\* in the first burn_in rounds, before any timed call; these durations enter
\* neither the per-candidate running sum nor total_time, and the reducer
\* removes exactly these entries, so none is in the returned times or mean.
C6_BurnIn ==
    /\ \A p, q \in 1..Len(log) :
            (IsBurnInCall(log[p]) /\ IsTimedCall(log[q])) => p < q
    /\ \A p \in 1..Len(log) : (IsSkip(log[p]) \/ IsCheck(log[p])) => log[p].round >= burn_in
    /\ (pc = "dispatch" /\ i >= burn_in) \/ Returned =>
            \A k \in Funs : Len(BurnInCalls(k)) = burn_in
    /\ pc = "dispatch" =>
            /\ \A k \in Funs :
                    /\ RatEq(output[k].mean, Rat(Sum(DursOf(TimedCalls(k)))))
                    /\ output[k].times = DursOf(Calls(k))
            /\ total_time = IF has_value(max_time_total)
                            THEN Sum(DursOf(AllTimedCalls)) ELSE 0
    /\ Returned =>
            \A k \in Funs :
                /\ output[k].times = DursOf(TimedCalls(k))
                /\ output[k].mean.num * Len(output[k].times)
                        = Sum(DursOf(TimedCalls(k))) * output[k].mean.den

C6_Witness ==
    /\ Returned
    /\ burn_in = 1 /\ nfun = 2 /\ iterations = 1
    /\ max_time_per_function = {0}
    /\ \A k \in Funs : Dur(BurnInCalls(k)[1]) = 2 /\ output[k].times = <<>>

\* C7: check is invoked exactly once for each timed call, after the call's
\* end timestamp and before the next start timestamp, never for a burn-in call
\* or a skipped entry; its run time is in no sample and no accumulator; on
\* normal return the number of check invocations with index k is the length
\* of output[k].times.
C7_CheckOncePerTimedCall ==
    /\ \A p \in 1..Len(log) :
            /\ IsCheck(log[p]) =>
                    /\ p > 1
                    /\ IsTimedCall(log[p - 1])
                    /\ log[p - 1].res = log[p].res
                    /\ log[p - 1].end <= log[p].start
                    /\ \A q \in (p + 1)..Len(log) : log[p].end <= log[q].start
            /\ IsTimedCall(log[p]) => (p < Len(log) /\ IsCheck(log[p + 1]))
    /\ pc \in {"dispatch", "thrown"} =>
            \A k \in Funs : output[k].times = DursOf(Calls(k))
    /\ pc = "dispatch" =>
            /\ \A k \in Funs : RatEq(output[k].mean, Rat(Sum(DursOf(TimedCalls(k)))))
            /\ has_value(max_time_total) => total_time = Sum(DursOf(AllTimedCalls))
    /\ Returned =>
            \A k \in Funs :
                /\ Len(Checks(k)) = Len(output[k].times)
                /\ output[k].times = DursOf(TimedCalls(k))

C7_Witness ==
    /\ Returned
    /\ check_time = 1
    /\ nfun = 2 /\ iterations = 2
    /\ \A k \in Funs : Len(Checks(k)) = 2 /\ output[k].times = <<1, 2>>

\* C8: time() returns exactly N records, index-aligned with the input: the
\* samples of record k are the durations of the calls of funs[k], and check
\* receives index k together with the result of a call of funs[k]; N = 0
\* returns an empty list.
C8_IndexAligned ==
    /\ pc \in {"dispatch", "done"} => DOMAIN output = Funs
    /\ (Returned /\ nfun = 0) => output = <<>>
    /\ pc = "dispatch" => \A k \in Funs : output[k].times = DursOf(Calls(k))
    /\ Returned => \A k \in Funs : output[k].times = DursOf(TimedCalls(k))
    /\ \A p \in 1..Len(log) :
            IsCheck(log[p]) =>
                /\ log[p].res \in 1..Len(log)
                /\ IsCall(log[log[p].res])
                /\ log[log[p].res].fn = log[p].fn

C8_Witness ==
    /\ Returned
    /\ nfun = 2 /\ iterations = 2
    /\ order[1] = 1
    /\ output[0].times = <<0, 1>>
    /\ output[1].times = <<2, 2>>

\* C9: skipping is permanent and samples are truncated, never reordered: after
\* a skipped entry of candidate f there is no later call of f, after an entry
\* skipped for max_time_total there is no later call at all, and the returned
\* times of a candidate are the durations of its calls in its first k timed
\* rounds, in round order, for some k <= iterations.
C9_TruncatedNeverReordered ==
    /\ \A p, q \in 1..Len(log) :
            /\ (p < q /\ IsSkip(log[p]) /\ IsCall(log[q])) => log[q].fn # log[p].fn
            /\ (p < q /\ log[p].ev = "skip_total") => ~IsCall(log[q])
    /\ Returned =>
            \A k \in Funs :
                LET c == TimedCalls(k)
                IN /\ Len(c) <= iterations
                   /\ \A j \in 1..Len(c) : c[j].round = burn_in + j - 1
                   /\ output[k].times = DursOf(c)

C9_Witness ==
    /\ Returned
    /\ nfun = 2 /\ iterations = 2 /\ burn_in = 0
    /\ max_time_per_function = {2} /\ max_time_total = {3}
    /\ output[0].times = <<0, 2>>
    /\ output[1].times = <<1>>
    /\ \E p \in 1..Len(log) : log[p].ev = "skip_total"

IsPermutationBlock(b) == {order[b * nfun + j] : j \in 1..nfun} = Funs

\* C10: the schedule has N * (iterations + burn_in) entries, each consecutive
\* block of N entries is a permutation of 0 .. N-1, and the dispatch loop
\* visits every entry exactly once, in order, whether it is called or skipped,
\* so oIt == order.end() when the loop exits.
C10_ScheduleWalkedOnce ==
    /\ pc = "schedule" =>
            /\ Len(order) = nfun * i
            /\ \A b \in 0..(i - 1) : IsPermutationBlock(b)
    /\ pc # "schedule" =>
            /\ Len(order) = nfun * num_iterations
            /\ \A b \in 0..(num_iterations - 1) : IsPermutationBlock(b)
    /\ pc \in {"dispatch", "done"} =>
            /\ Len(Entries) = oIt
            /\ oIt = IF i < num_iterations THEN i * nfun + f ELSE Len(order)
            /\ \A p \in 1..Len(Entries) :
                    /\ Entries[p].fn = order[p]
                    /\ nfun * Entries[p].round < p
                    /\ p <= nfun * (Entries[p].round + 1)
    /\ (pc = "dispatch" /\ i = num_iterations) \/ Returned => oIt = Len(order)

C10_Witness ==
    /\ pc = "dispatch" /\ i = num_iterations
    /\ nfun = 2 /\ iterations = 1 /\ burn_in = 1
    /\ order = <<1, 0, 0, 1>>
    /\ \E p \in 1..Len(log) : IsSkip(log[p])

====
